---- MODULE Spec2Model ----
(***************************************************************************)
(* Model of quotemeta_inner (src/src/lib.rs): shell-quoting of a byte      *)
(* sequence.  Bytes are integers 0..255; a Rust String is modelled as the  *)
(* sequence of its UTF-8 bytes.                                            *)
(***************************************************************************)
EXTENDS Integers, Sequences, FiniteSets, TLC

\* Longest input built from SampleBytes.
MaxLen == 3

\* Longest second input compared against in the injectivity check.
MaxOther == 2

Byte == 0 .. 255

\* NUL, newline, DEL, 0xA3, 0xFF, ', \, space, $, '3', 'a', '/'
SampleBytes == {0, 10, 127, 163, 255, 39, 92, 32, 36, 51, 97, 47}

SeqsUpTo(S, n) == UNION {[1 .. k -> S] : k \in 0 .. n}

\* newline, ', \, '3', space
OtherBytes == {10, 39, 92, 51, 32}

\* Every single byte value, plus every sequence of sample bytes up to MaxLen.
Inputs == SeqsUpTo(SampleBytes, MaxLen) \cup {<<c>> : c \in Byte}

(***************************************************************************)
(* The match arms of the closure, lib.rs:75-107.                           *)
(***************************************************************************)
\* Variant: '/' left out of the bare-safe arm.
BareSafeNoSlash ==
    {43, 44, 45, 46} \cup (48 .. 57) \cup {58, 61, 64}
        \cup (65 .. 90) \cup {95} \cup (97 .. 122)

\* + , - . /  0-9  :  =  @  A-Z  _  a-z
BareSafe ==
    {43, 44, 45, 46, 47} \cup (48 .. 57) \cup {58, 61, 64}
        \cup (65 .. 90) \cup {95} \cup (97 .. 122)

\* Variant: the control range runs through space.
ControlThroughSpace == (0 .. 32) \cup (127 .. 255)

\* Variant: the high range starts after DEL.
ControlFrom128 == (0 .. 31) \cup (128 .. 255)

ControlOrHighBit == (0 .. 31) \cup (127 .. 255)

\* Variant: the backslash is left to the wildcard arm.
SpecialEscapeQuoteOnly == {39}

\* ' and \
SpecialEscape == {39, 92}

\* First matching arm wins; the last arm is the wildcard.
Class(c) ==
    IF c \in BareSafe THEN "BareSafe"
    ELSE IF c \in ControlOrHighBit THEN "ControlOrHighBit"
    ELSE IF c \in SpecialEscape THEN "SpecialEscape"
    ELSE "NeedsSingleQuote"

\* char::from(c).to_string(): the UTF-8 encoding of U+0000..U+00FF.
CharToString(c) ==
    IF c < 128 THEN <<c>> ELSE <<192 + (c \div 64), 128 + (c % 64)>>

RECURSIVE OctalDigits(_)
OctalDigits(n) ==
    IF n < 8 THEN <<48 + n>> ELSE OctalDigits(n \div 8) \o <<48 + (n % 8)>>

RECURSIVE ZeroPad(_, _)
ZeroPad(d, w) == IF Len(d) >= w THEN d ELSE ZeroPad(<<48>> \o d, w)

\* Variant: octal without the zero padding.
FormatOctalUnpadded(c) == <<92>> \o OctalDigits(c)

\* format!(r"\{:03o}", c)
FormatOctal03(c) == <<92>> \o ZeroPad(OctalDigits(c), 3)

\* Variant: the escaping backslash is forgotten.
FormatNoBackslash(c) == CharToString(c)

\* format!(r"\{}", char::from(c))
FormatBackslash(c) == <<92>> \o CharToString(c)

\* Variant: each arm assigns the flags from the current byte alone.
ClosureOverwrite(c, cq, sq) ==
    CASE Class(c) = "BareSafe" ->
            [frag |-> CharToString(c), c_quoted |-> FALSE, single_quoted |-> FALSE]
      [] Class(c) = "ControlOrHighBit" ->
            [frag |-> FormatOctal03(c), c_quoted |-> TRUE, single_quoted |-> FALSE]
      [] Class(c) = "SpecialEscape" ->
            [frag |-> FormatBackslash(c), c_quoted |-> TRUE, single_quoted |-> FALSE]
      [] OTHER ->
            [frag |-> CharToString(c), c_quoted |-> FALSE, single_quoted |-> TRUE]

\* One call of the closure on byte c with the captured flags cq, sq.
Closure(c, cq, sq) ==
    CASE Class(c) = "BareSafe" ->
            [frag |-> CharToString(c), c_quoted |-> cq, single_quoted |-> sq]
      [] Class(c) = "ControlOrHighBit" ->
            [frag |-> FormatOctal03(c), c_quoted |-> TRUE, single_quoted |-> sq]
      [] Class(c) = "SpecialEscape" ->
            [frag |-> FormatBackslash(c), c_quoted |-> TRUE, single_quoted |-> sq]
      [] OTHER ->
            [frag |-> CharToString(c), c_quoted |-> cq, single_quoted |-> TRUE]

\* Variant: the single-quote arm is tried before the C-quote arm.
WrapSingleFirst(cq, sq, str) ==
    IF sq THEN <<39>> \o str \o <<39>>
    ELSE IF cq THEN <<36, 39>> \o str \o <<39>>
    ELSE str

\* The final match on (c_quoted, single_quoted).
Wrap(cq, sq, str) ==
    IF cq THEN <<36, 39>> \o str \o <<39>>
    ELSE IF sq THEN <<39>> \o str \o <<39>>
    ELSE str

\* The whole function as a fold, for applying it to a second argument.
RECURSIVE MapCollect(_, _, _)
MapCollect(b, i, acc) ==
    IF i > Len(b) THEN acc
    ELSE LET r == Closure(b[i], acc.c_quoted, acc.single_quoted)
         IN  MapCollect(b, i + 1,
                 [s |-> acc.s \o r.frag, c_quoted |-> r.c_quoted,
                  single_quoted |-> r.single_quoted])

quotemeta_inner(b) ==
    LET acc == MapCollect(b, 1, [s |-> <<>>, c_quoted |-> FALSE,
                                 single_quoted |-> FALSE])
    IN  Wrap(acc.c_quoted, acc.single_quoted, acc.s)

(***************************************************************************)
(* One call of quotemeta_inner as a state machine.                         *)
(***************************************************************************)
VARIABLES input, pos, s, c_quoted, single_quoted, pc, result

vars == <<input, pos, s, c_quoted, single_quoted, pc, result>>

Init ==
    /\ input \in Inputs
    /\ pos = 0
    /\ s = <<>>
    /\ c_quoted = FALSE
    /\ single_quoted = FALSE
    /\ pc = "map"
    /\ result = <<>>

\* collect() pulls the next byte through the closure and appends its fragment.
Step ==
    /\ pc = "map"
    /\ pos < Len(input)
    /\ LET r == Closure(input[pos + 1], c_quoted, single_quoted)
       IN  /\ s' = s \o r.frag
           /\ c_quoted' = r.c_quoted
           /\ single_quoted' = r.single_quoted
    /\ pos' = pos + 1
    /\ UNCHANGED <<input, pc, result>>

\* The iterator is exhausted: choose the wrapper and return.
Finish ==
    /\ pc = "map"
    /\ pos = Len(input)
    /\ result' = Wrap(c_quoted, single_quoted, s)
    /\ pc' = "done"
    /\ UNCHANGED <<input, pos, s, c_quoted, single_quoted>>

Next == Step \/ Finish

Spec == Init /\ [][Next]_vars

TypeOK ==
    /\ input \in Inputs
    /\ pos \in 0 .. Len(input)
    /\ c_quoted \in BOOLEAN
    /\ single_quoted \in BOOLEAN
    /\ pc \in {"map", "done"}
    /\ pc = "done" => result = quotemeta_inner(input)

(***************************************************************************)
(* The byte classes and the shell's reading of a word, as the              *)
(* specification states them; the properties below compare the code        *)
(* against these.                                                          *)
(***************************************************************************)
DocBareSafe ==
    {43, 44, 45, 46, 47, 58, 61, 64, 95} \cup (48 .. 57) \cup (65 .. 90)
        \cup (97 .. 122)

DocControl == {c \in Byte : c <= 31 \/ c >= 127}

DocSpecial == {39, 92}

DocNeedsQuote == Byte \ (DocBareSafe \cup DocControl \cup DocSpecial)

DocClass(c) ==
    CASE c \in DocBareSafe -> "BareSafe"
      [] c \in DocControl -> "ControlOrHighBit"
      [] c \in DocSpecial -> "SpecialEscape"
      [] c \in DocNeedsQuote -> "NeedsSingleQuote"

Has(S) == \E i \in 1 .. Len(input) : input[i] \in S

HasBefore(S, k) == \E i \in 1 .. k : input[i] \in S

AllIn(S) == \A i \in 1 .. Len(input) : input[i] \in S

Done == pc = "done"

CQuotedText(t) ==
    Len(t) >= 3 /\ t[1] = 36 /\ t[2] = 39 /\ t[Len(t)] = 39

SingleQuotedText(t) == Len(t) >= 2 /\ t[1] = 39 /\ t[Len(t)] = 39

Interior(t) ==
    IF CQuotedText(t) THEN SubSeq(t, 3, Len(t) - 1)
    ELSE IF SingleQuotedText(t) THEN SubSeq(t, 2, Len(t) - 1)
    ELSE t

\* Blanks and newline end a word; the other metacharacters are not literal
\* when unquoted.
ShellBlank == {9, 10, 32}

ShellMeta ==
    {33, 34, 35, 36, 38, 40, 41, 42, 59, 60, 62, 63, 91, 92, 93, 94, 96, 123,
     124, 125, 126}

OctalDigit == 48 .. 55

\* Number of octal digits (at most three) of t starting at position i.
OctalRun(t, i) ==
    IF i > Len(t) \/ t[i] \notin OctalDigit THEN 0
    ELSE IF i + 1 > Len(t) \/ t[i + 1] \notin OctalDigit THEN 1
    ELSE IF i + 2 > Len(t) \/ t[i + 2] \notin OctalDigit THEN 2
    ELSE 3

RECURSIVE OctalValue(_, _, _)
OctalValue(t, i, n) ==
    IF n = 0 THEN 0 ELSE 8 * OctalValue(t, i, n - 1) + (t[i + n - 1] - 48)

\* The words a shell reads from the text t.  A character that the shell would
\* not take literally is recorded as -1, and so is an unterminated quote.
RECURSIVE ShellRead(_, _, _, _, _, _)
ShellRead(t, i, mode, cur, started, words) ==
    IF i > Len(t) THEN
        IF mode # "bare" THEN Append(words, Append(cur, -1))
        ELSE IF started THEN Append(words, cur)
        ELSE words
    ELSE
        LET ch == t[i] IN
        CASE mode = "bare" ->
                IF ch \in ShellBlank THEN
                    ShellRead(t, i + 1, "bare", <<>>, FALSE,
                              IF started THEN Append(words, cur) ELSE words)
                ELSE IF ch = 39 THEN
                    ShellRead(t, i + 1, "single", cur, TRUE, words)
                ELSE IF ch = 36 /\ i < Len(t) /\ t[i + 1] = 39 THEN
                    ShellRead(t, i + 2, "ansi", cur, TRUE, words)
                ELSE IF ch \in ShellMeta THEN
                    ShellRead(t, i + 1, "bare", Append(cur, -1), TRUE, words)
                ELSE
                    ShellRead(t, i + 1, "bare", Append(cur, ch), TRUE, words)
          [] mode = "single" ->
                IF ch = 39 THEN ShellRead(t, i + 1, "bare", cur, TRUE, words)
                ELSE ShellRead(t, i + 1, "single", Append(cur, ch), TRUE, words)
          [] mode = "ansi" ->
                IF ch = 39 THEN ShellRead(t, i + 1, "bare", cur, TRUE, words)
                ELSE IF ch # 92 THEN
                    ShellRead(t, i + 1, "ansi", Append(cur, ch), TRUE, words)
                ELSE IF i < Len(t) /\ t[i + 1] \in {39, 92} THEN
                    ShellRead(t, i + 2, "ansi", Append(cur, t[i + 1]), TRUE, words)
                ELSE IF OctalRun(t, i + 1) > 0 THEN
                    LET n == OctalRun(t, i + 1) IN
                    ShellRead(t, i + 1 + n, "ansi",
                              Append(cur, OctalValue(t, i + 1, n) % 256), TRUE,
                              words)
                ELSE
                    ShellRead(t, i + 2, "ansi", Append(cur, -1), TRUE, words)

ShellWords(t) == ShellRead(t, 1, "bare", <<>>, FALSE, <<>>)

\* C1: the shell reads the output of quotemeta as exactly one argument whose
\* bytes are the input, for every input including the empty one.
C1_RoundTrip == Done => ShellWords(result) = <<input>>

\* The same for the inputs that have at least one byte.
RoundTripNonEmpty == Done /\ Len(input) > 0 => ShellWords(result) = <<input>>

\* C2: an input with a Control-or-high-bit or Special-escape byte is returned
\* wrapped in $'...', never in plain '...', whatever else it contains.
C2_Precedence ==
    Done /\ Has(DocControl \cup DocSpecial)
        => CQuotedText(result) /\ result[1] # 39

C2_Witness ==
    /\ Done
    /\ Has(DocControl)
    /\ Has(DocSpecial)
    /\ Has(DocNeedsQuote)
    /\ CQuotedText(result)

C4_IdentitySafe ==
    Done /\ AllIn(DocBareSafe)
        => result = input /\ quotemeta_inner(result) = result

C4_Witness ==
    Done /\ Len(input) >= 2 /\ AllIn(DocBareSafe) /\ result = input

(***************************************************************************)
(* Reading the intermediate string back, fragment by fragment.             *)
(***************************************************************************)
Digit == 48 .. 57

\* The fragments of t from position i on, scanned left to right: a character
\* other than a backslash alone; a backslash with ' or \; a backslash with
\* three more characters when a digit follows it.  <<-1>> marks text that is
\* none of these.
RECURSIVE SplitFragments(_, _)
SplitFragments(t, i) ==
    IF i > Len(t) THEN <<>>
    ELSE IF t[i] # 92 THEN <<<<t[i]>>>> \o SplitFragments(t, i + 1)
    ELSE IF i < Len(t) /\ t[i + 1] \in {39, 92}
        THEN <<SubSeq(t, i, i + 1)>> \o SplitFragments(t, i + 2)
    ELSE IF i + 3 <= Len(t) /\ t[i + 1] \in Digit
        THEN <<SubSeq(t, i, i + 3)>> \o SplitFragments(t, i + 4)
    ELSE <<<<-1>>>>

\* Whether f is one well-formed fragment.
IsFragment(f) ==
    \/ Len(f) = 1 /\ f[1] # 92
    \/ Len(f) = 2 /\ f[1] = 92 /\ f[2] \in {39, 92}
    \/ Len(f) = 4 /\ f[1] = 92 /\ \A j \in 2 .. 4 : f[j] \in OctalDigit

\* The number of ways to cut t, from position i on, into well-formed fragments.
RECURSIVE NumSplits(_, _)
NumSplits(t, i) ==
    IF i > Len(t) THEN 1
    ELSE (IF IsFragment(SubSeq(t, i, i)) THEN NumSplits(t, i + 1) ELSE 0)
       + (IF i + 1 <= Len(t) /\ IsFragment(SubSeq(t, i, i + 1))
            THEN NumSplits(t, i + 2) ELSE 0)
       + (IF i + 3 <= Len(t) /\ IsFragment(SubSeq(t, i, i + 3))
            THEN NumSplits(t, i + 4) ELSE 0)

\* The byte a fragment stands for.
FragmentByte(f) ==
    IF Len(f) = 1 THEN f[1]
    ELSE IF Len(f) = 2 THEN f[2]
    ELSE 64 * (f[2] - 48) + 8 * (f[3] - 48) + (f[4] - 48)

LastChars(t, n) == SubSeq(t, Len(t) - n + 1, Len(t))

\* C5: a Control-or-high-bit byte c is rendered as a backslash and exactly
\* three octal digits d2 d1 d0 with 64*d2 + 8*d1 + d0 = c and d2 <= 3; a digit
\* that follows it in the input is a separate fourth character, and reading
\* exactly three octal digits recovers c and then that digit.
C5_FixedWidthOctal ==
    /\ pos >= 1 /\ input[pos] \in DocControl =>
          /\ Len(s) >= 4
          /\ LET f == LastChars(s, 4) IN
                /\ f[1] = 92
                /\ \A j \in 2 .. 4 : f[j] \in OctalDigit
                /\ f[2] - 48 <= 3
                /\ 64 * (f[2] - 48) + 8 * (f[3] - 48) + (f[4] - 48) = input[pos]
    /\ pos >= 2 /\ input[pos - 1] \in DocControl /\ input[pos] \in Digit =>
          /\ Len(s) >= 5
          /\ LET f == SplitFragments(LastChars(s, 5), 1) IN
                /\ Len(f) = 2
                /\ Len(f[1]) = 4
                /\ FragmentByte(f[1]) = input[pos - 1]
                /\ f[2] = <<input[pos]>>

C5_Witness ==
    /\ Done
    /\ Len(input) = 2
    /\ input[1] = 10
    /\ input[2] = 51
    /\ result = <<36, 39, 92, 48, 49, 50, 51, 39>>

\* The class of c when the three explicit arms are tried in the given order
\* and the wildcard last.
FirstMatch(c, order) ==
    LET arm(a) == CASE a = "BareSafe" -> BareSafe
                    [] a = "ControlOrHighBit" -> ControlOrHighBit
                    [] a = "SpecialEscape" -> SpecialEscape
    IN  IF c \in arm(order[1]) THEN order[1]
        ELSE IF c \in arm(order[2]) THEN order[2]
        ELSE IF c \in arm(order[3]) THEN order[3]
        ELSE "NeedsSingleQuote"

ExplicitArms == {"BareSafe", "ControlOrHighBit", "SpecialEscape"}

ArmOrders == {o \in [1 .. 3 -> ExplicitArms] : {o[1], o[2], o[3]} = ExplicitArms}

\* C6: every byte is in exactly one of the four classes: at most one explicit
\* arm matches it, the class the code chooses is the class of the byte's
\* value, the choice is the same in every order of the arms, and the byte has
\* an output fragment.
C6_Partition ==
    \A i \in 1 .. Len(input) :
        LET c == input[i] IN
        /\ Cardinality({S \in {BareSafe, ControlOrHighBit, SpecialEscape} :
                            c \in S}) <= 1
        /\ Class(c) = DocClass(c)
        /\ \A o \in ArmOrders : FirstMatch(c, o) = Class(c)
        /\ Len(Closure(c, FALSE, FALSE).frag) >= 1

C6_Witness ==
    Done /\ Len(input) = 3 /\ {DocClass(input[i]) : i \in 1 .. 3} =
        {"BareSafe", "ControlOrHighBit", "SpecialEscape"}

Others == SeqsUpTo(OtherBytes, MaxOther)

\* C7: the intermediate string splits into the per-byte fragments in exactly
\* one way, one fragment for each byte processed, each standing for its byte;
\* and no other input gives the same output.
C7_Unambiguous ==
    /\ LET f == SplitFragments(s, 1) IN
          /\ Len(f) = pos
          /\ \A i \in 1 .. pos : IsFragment(f[i]) /\ FragmentByte(f[i]) = input[i]
    /\ NumSplits(s, 1) = 1
    /\ Done =>
          /\ Interior(result) = s
          /\ \A b \in Others : b # input => quotemeta_inner(b) # result

C7_Witness ==
    /\ Done
    /\ Len(input) = 3
    /\ input[1] = 92
    /\ input[2] \in DocControl
    /\ input[3] \in Digit
    /\ Len(s) = 7

WrapperOf(classes) ==
    IF classes \cap {"ControlOrHighBit", "SpecialEscape"} # {} THEN "ansi"
    ELSE IF "NeedsSingleQuote" \in classes THEN "single"
    ELSE "none"

FlagsAgree ==
    /\ c_quoted = HasBefore(DocControl \cup DocSpecial, pos)
    /\ single_quoted = HasBefore(DocNeedsQuote, pos)
    /\ Done =>
          LET w == WrapperOf({DocClass(input[i]) : i \in 1 .. Len(input)}) IN
          result = CASE w = "ansi" -> <<36, 39>> \o s \o <<39>>
                     [] w = "single" -> <<39>> \o s \o <<39>>
                     [] w = "none" -> s

FlagsMonotone ==
    /\ c_quoted => c_quoted'
    /\ single_quoted => single_quoted'
    /\ pos' = pos + 1 /\ input[pos'] \in DocBareSafe
          => c_quoted' = c_quoted /\ single_quoted' = single_quoted

\* C8: after k bytes c_quoted holds iff one of them is Control-or-high-bit or
\* Special-escape and single_quoted iff one of them is Needs-single-quote
\* (both false at k = 0); a flag never goes back to false and a Bare-safe byte
\* changes neither; the wrapper depends only on the set of classes present.
C8_FlagAccumulation == [](FlagsAgree) /\ [][FlagsMonotone]_vars

C8_Witness ==
    /\ pc = "map"
    /\ pos = 3
    /\ input[1] \in DocNeedsQuote
    /\ input[2] \in DocSpecial
    /\ input[3] \in DocBareSafe
    /\ c_quoted
    /\ single_quoted

\* C9: a plain single-quoted result holds the input unchanged between its two
\* quotes; the input has a Needs-single-quote byte and no single quote, no
\* backslash and no byte outside 32..126.
C9_PlainSingleQuoted ==
    Done /\ Len(result) >= 1 /\ result[1] = 39 =>
        /\ SingleQuotedText(result)
        /\ SubSeq(result, 2, Len(result) - 1) = input
        /\ Has(DocNeedsQuote)
        /\ AllIn((32 .. 126) \ {39, 92})
        /\ \A j \in 2 .. Len(result) - 1 : result[j] # 39

C9_Witness ==
    /\ Done
    /\ Len(input) = 3
    /\ Has({32})
    /\ Has({36})
    /\ Has(DocBareSafe)
    /\ result = <<39>> \o input \o <<39>>

\* The positions of t where an escape starts: a backslash that is not itself
\* the character escaped by the backslash before it.
RECURSIVE EscapeStarts(_, _)
EscapeStarts(t, i) ==
    IF i > Len(t) THEN {}
    ELSE IF t[i] = 92 THEN {i} \cup EscapeStarts(t, i + 2)
    ELSE EscapeStarts(t, i + 1)

\* C10: every character of the output is printable ASCII, and inside $'...'
\* every single quote or backslash starts an escape or is the character right
\* after the backslash that starts one.
C10_PrintableOutput ==
    Done =>
        /\ \A j \in 1 .. Len(result) : result[j] \in 32 .. 126
        /\ CQuotedText(result) =>
              LET t == Interior(result)
                  e == EscapeStarts(t, 1)
              IN  /\ \A j \in e : j < Len(t)
                  /\ \A j \in 1 .. Len(t) :
                        /\ t[j] = 92 => j \in e \/ (j - 1) \in e
                        /\ t[j] = 39 => (j - 1) \in e

C10_Witness ==
    /\ Done
    /\ Has({0})
    /\ Has({163})
    /\ Has({39})
    /\ \A j \in 1 .. Len(result) : result[j] \in 32 .. 126

====
